---- MODULE Spec2Model ----
(***************************************************************************)
(* Model of the TeamsWebsocket connection wrapper (src/src/lib.rs) and of  *)
(* the message model it serialises (src/src/messages.rs).                  *)
(*                                                                         *)
(* Option<T> is modelled as a sequence: None is <<>>, Some(x) is <<x>>.    *)
(* The wrapper's fields keep their names: identifier, socket, token,       *)
(* request_id, url.  The websocket channels behind the handle in `socket`  *)
(* live in `chans`; the server and the network act on them through the     *)
(* Server... and Peer... actions.                                          *)
(***************************************************************************)
EXTENDS Integers, Sequences, FiniteSets, TLC

\* ------------------------------------------------------------------ bounds
MaxChans == 2       \* channels the server accepts in one run
MaxOps   == 4       \* calls of connect/send/receive/close in one run
MaxDeliver == 1     \* inbound stream items the peer delivers in one run
WireSends == 2      \* send calls in one run of SpecWire

\* ------------------------------------------------------------- Option<T>
None == <<>>
Some(x) == <<x>>
IsSome(o) == o # <<>>
Unwrap(o) == o[1]

\* ------------------------------------------------------------ error values
\* Box<dyn Error> values: the concrete type and, for string errors, the text.
SOCKET_NOT_CONNECTED == "socket not connected"
SOCKET_CLOSED == "socket closed"
NoError == [ty |-> "", msg |-> ""]
StrError(s) == [ty |-> "&str", msg |-> s]
UrlParseError == [ty |-> "url::ParseError", msg |-> ""]
WsError == [ty |-> "tungstenite::Error", msg |-> ""]
JsonError == [ty |-> "serde_json::Error", msg |-> ""]
Elapsed == [ty |-> "tokio::time::error::Elapsed", msg |-> ""]

Ok(op, v) == [op |-> op, ok |-> TRUE, err |-> NoError, val |-> v]
Err(op, e) == [op |-> op, ok |-> FALSE, err |-> e, val |-> None]

\* ------------------------------------------------------------ message model
\* MeetingAction variants and their serde names: an explicit rename where the
\* source gives one, the camelCase of the variant name otherwise.
MeetingAction == {"None", "QueryMeetingState", "Mute", "Unmute", "ToggleMute",
    "HideVideo", "ShowVideo", "ToggleVideo", "UnblurBackground",
    "BlurBackground", "ToggleBlurBackground", "LowerHand", "RaiseHand",
    "ToggleHand", "LeaveCall", "React", "ToggleUI", "StopSharing"}

\* The discriminant of each MeetingAction variant.
MeetingActionCode(a) ==
    CASE a = "None" -> 0
      [] a = "QueryMeetingState" -> 256
      [] a = "Mute" -> 512
      [] a = "Unmute" -> 513
      [] a = "ToggleMute" -> 514
      [] a = "HideVideo" -> 768
      [] a = "ShowVideo" -> 769
      [] a = "ToggleVideo" -> 770
      [] a = "UnblurBackground" -> 1024
      [] a = "BlurBackground" -> 1025
      [] a = "ToggleBlurBackground" -> 1026
      [] a = "LowerHand" -> 1280
      [] a = "RaiseHand" -> 1281
      [] a = "ToggleHand" -> 1282
      [] a = "LeaveCall" -> 1792
      [] a = "React" -> 2048
      [] a = "ToggleUI" -> 2304
      [] a = "StopSharing" -> 2560

\* The discriminant of each ClientMessageParameterType variant.
ClientMessageParameterTypeCode(t) ==
    CASE t = "ReactApplause" -> 1808
      [] t = "ReactLaugh" -> 1809
      [] t = "ReactLike" -> 1810
      [] t = "ReactLove" -> 1811
      [] t = "ReactWow" -> 1812
      [] t = "ToggleUiChat" -> 2305
      [] t = "ToggleUiSharing" -> 2306

\* Faulty variant of MeetingActionTag: the variant's discriminant is written.
MeetingActionTagAsCode(a) == ToString(MeetingActionCode(a))

MeetingActionTag(a) ==
    CASE a = "None" -> "none"
      [] a = "QueryMeetingState" -> "query-state"
      [] a = "Mute" -> "mute"
      [] a = "Unmute" -> "unmute"
      [] a = "ToggleMute" -> "toggle-mute"
      [] a = "HideVideo" -> "hide-video"
      [] a = "ShowVideo" -> "show-video"
      [] a = "ToggleVideo" -> "toggle-video"
      [] a = "UnblurBackground" -> "unblur-background"
      [] a = "BlurBackground" -> "blur-background"
      [] a = "ToggleBlurBackground" -> "toggle-background-blur"
      [] a = "LowerHand" -> "lower-hand"
      [] a = "RaiseHand" -> "raise-hand"
      [] a = "ToggleHand" -> "toggle-hand"
      [] a = "LeaveCall" -> "leave-call"
      [] a = "React" -> "send-reaction"
      [] a = "ToggleUI" -> "toggle-ui"
      [] a = "StopSharing" -> "stop-sharing"

ClientMessageParameterType == {"ReactApplause", "ReactLaugh", "ReactLike",
    "ReactLove", "ReactWow", "ToggleUiChat", "ToggleUiSharing"}

ClientMessageParameterTypeTag(t) ==
    CASE t = "ReactApplause" -> "applause"
      [] t = "ReactLaugh" -> "laugh"
      [] t = "ReactLike" -> "like"
      [] t = "ReactLove" -> "love"
      [] t = "ReactWow" -> "wow"
      [] t = "ToggleUiChat" -> "chat"
      [] t = "ToggleUiSharing" -> "sharing-tray"

\* ClientMessage { action, parameters: Option<..>, request_id: Option<i32> }
ClientMessage(action, parameters, rid) ==
    [action |-> action, parameters |-> parameters, request_id |-> rid]

\* ClientMessage::new: the request identifier starts unset.
ClientMessageNew(action, parameters) == ClientMessage(action, parameters, None)

\* Faulty variant of SerializeClientMessage: parameters are written only with
\* the actions they belong to.
SerializeClientMessageValidates(m) ==
    [ok |-> TRUE,
     text |-> [action |-> MeetingActionTag(m.action),
               parameters |-> IF IsSome(m.parameters) /\ m.action \in {"React", "ToggleUI"}
                              THEN Some([type |-> ClientMessageParameterTypeTag(Unwrap(m.parameters))])
                              ELSE None,
               requestId |-> m.request_id]]

\* serde_json::to_string(&ClientMessage): the JSON object written on the wire,
\* keys in field order; an absent Option is written as null (None here).  The
\* derive(Serialize) of these types has no failing case.
SerializeClientMessage(m) ==
    [ok |-> TRUE,
     text |-> [action |-> MeetingActionTag(m.action),
               parameters |-> IF IsSome(m.parameters)
                              THEN Some([type |-> ClientMessageParameterTypeTag(Unwrap(m.parameters))])
                              ELSE None,
               requestId |-> m.request_id]]

\* ---------------------------------------------------------------- JSON
\* A JSON member of an inbound object: absent, null, or a typed value.
JAbsent == [t |-> "absent", v |-> <<>>]
JNull == [t |-> "null", v |-> <<>>]
JInt(n) == [t |-> "int", v |-> <<n>>]
JStr(s) == [t |-> "str", v |-> <<s>>]
JObj(o) == [t |-> "obj", v |-> <<o>>]
JTrue == [t |-> "bool", v |-> <<>>]

\* The text an echoing peer builds: format!("Echo: {}", text).
EchoOf(text) == [t |-> "str", v |-> <<"Echo: ", text>>]

\* The five members of a response object (keys in lower camel case).
ResponseObject(rid, resp, emsg, tok, mu) ==
    [requestId |-> rid, response |-> resp, errorMsg |-> emsg,
     tokenRefresh |-> tok, meetingUpdate |-> mu]

\* Payload of a frame: JSON text, text that is no JSON, or bytes that are no
\* UTF-8 ("bytes" can only occur in binary, ping and pong frames).
EmptyObject == ResponseObject(JAbsent, JAbsent, JAbsent, JAbsent, JAbsent)
JsonText(obj) == [enc |-> "json", obj |-> obj]
GarbageText == [enc |-> "garbage", obj |-> EmptyObject]
RawBytes == [enc |-> "bytes", obj |-> EmptyObject]

\* Faulty variant of OptionField: only an absent key gives None, null is
\* taken for a value of another type.
OptionFieldNullFails(jv, ty) ==
    IF jv.t = "absent" THEN [ok |-> TRUE, val |-> None]
    ELSE IF jv.t = ty THEN [ok |-> TRUE, val |-> jv.v]
    ELSE [ok |-> FALSE, val |-> None]

\* Option<T> field of a derive(Deserialize) struct: an absent key and null
\* both give None, a value of the field's type gives Some, another type fails.
OptionField(jv, ty) ==
    IF jv.t \in {"absent", "null"} THEN [ok |-> TRUE, val |-> None]
    ELSE IF jv.t = ty THEN [ok |-> TRUE, val |-> jv.v]
    ELSE [ok |-> FALSE, val |-> None]

\* serde_json::from_str::<ServerMessage>(text)
DeserializeServerMessage(text) ==
    IF text.enc # "json" THEN [ok |-> FALSE, val |-> None]
    ELSE LET rid == OptionField(text.obj.requestId, "int")
             resp == OptionField(text.obj.response, "str")
             emsg == OptionField(text.obj.errorMsg, "str")
             tok == OptionField(text.obj.tokenRefresh, "str")
             mu == OptionField(text.obj.meetingUpdate, "obj")
         IN IF rid.ok /\ resp.ok /\ emsg.ok /\ tok.ok /\ mu.ok
            THEN [ok |-> TRUE,
                  val |-> Some([request_id |-> rid.val, response |-> resp.val,
                                error_msg |-> emsg.val, token_refresh |-> tok.val,
                                meeting_update |-> mu.val])]
            ELSE [ok |-> FALSE, val |-> None]

\* serde_json::to_string(&ServerMessage) as the test server builds it: every
\* None member is written as null.
EchoResponse(text) ==
    JsonText(ResponseObject(IF IsSome(text.requestId) THEN JInt(Unwrap(text.requestId)) ELSE JNull,
                            EchoOf(text), JNull, JNull, JNull))

\* ------------------------------------------------------------- frames
\* tungstenite::Message, by variant, with its payload.
Frame(kind, data) == [kind |-> kind, data |-> data]
NoFrame == Frame("", GarbageText)

\* Message::to_text: the text of a text frame; the payload of a binary, ping
\* or pong frame if it is UTF-8 and an error otherwise; the reason of a close
\* frame.
ToText(msg) ==
    IF msg.kind \in {"Binary", "Ping", "Pong"} /\ msg.data.enc = "bytes"
    THEN [ok |-> FALSE, text |-> msg.data]
    ELSE [ok |-> TRUE, text |-> msg.data]

\* Items the inbound stream yields: Some(Ok(msg)) or Some(Err(e)).
MsgItem(f) == [item |-> "msg", msg |-> f]
ErrItem == [item |-> "err", msg |-> NoFrame]

\* ------------------------------------------------------------- inputs
\* AppIdentifiers values a caller may pass to the constructor.
Identities ==
    {[protocol_version |-> "1.0", manufacturer |-> "TestManufacturer",
      device |-> "TestDevice", app |-> "TestApp", app_version |-> "1.0"],
     [protocol_version |-> "2.0.0", manufacturer |-> "Elgato",
      device |-> "StreamDeck", app |-> "MSTeams", app_version |-> "1.4"]}
Tokens == {None, Some("secret-token")}
DEFAULT_URL == "ws://127.0.0.1:8124"
TestUrl == "ws://127.0.0.1:9001"
BadUrl == "not a url"
UrlArgs == {None, Some(TestUrl), Some(BadUrl)}

\* The constructor calls of the runs: <<identifier, token, url>>.
CtorArgs ==
    {<<id, tok, u>> \in Identities \X Tokens \X UrlArgs :
        \/ tok = None /\ u = None /\ id.app = "TestApp"
        \/ tok # None /\ u = Some(TestUrl) /\ id.app = "MSTeams"
        \/ tok = None /\ u = Some(BadUrl) /\ id.app = "TestApp"}

\* Commands a caller passes to send: any action with any parameters, the
\* request identifier unset (ClientMessage::new) or set by the caller.
Commands ==
    {ClientMessageNew("QueryMeetingState", None),
     ClientMessage("Mute", Some("ReactLike"), Some(7))}

\* Frames the peer may push on its own.
ServerFrames ==
    {Frame("Text", JsonText(ResponseObject(JAbsent, JAbsent, JAbsent, JStr("new-token"), JAbsent))),
     Frame("Text", GarbageText),
     Frame("Binary", JsonText(EmptyObject)),
     Frame("Binary", RawBytes),
     Frame("Close", GarbageText)}

\* ------------------------------------------------------------- state
VARIABLES
    identifier,     \* TeamsWebsocket.identifier
    socket,         \* TeamsWebsocket.socket: None or Some(channel)
    token,          \* TeamsWebsocket.token
    request_id,     \* TeamsWebsocket.request_id
    url,            \* TeamsWebsocket.url
    chans,          \* the websocket streams opened so far, by channel number
    result,         \* what the last call returned
    aborted,        \* a panic unwound out of a call
    opCount,        \* number of calls made
    lastMessage,    \* the command passed to the latest call of send, as passed
    args,           \* the arguments the constructor was called with
    sendLog,        \* the identifiers assigned by send, in call order
    closedOk,       \* a close returned Ok and no connect has succeeded since
    timedOut,       \* channels on which a receive has timed out
    received        \* the responses receive has returned, in call order

wrapper == <<identifier, socket, token, request_id, url>>
history == <<args, sendLog, closedOk, timedOut, received>>
vars == <<identifier, socket, token, request_id, url, chans, result, aborted,
          opCount, lastMessage, args, sendLog, closedOk, timedOut, received>>

ChanIds == 1..MaxChans

\* A stream that was never opened.
Unopened ==
    [status |-> "unopened", address |-> "", query |-> <<>>, inbox |-> <<>>,
     eof |-> FALSE, delivered |-> 0, outbox |-> <<>>, answered |-> 0, closeSent |-> FALSE]

\* ------------------------------------------------------------- new
\* Faulty variant of New: the supplied token is not stored.
NewDropsToken(id, tok, u) ==
    [identifier |-> id,
     socket |-> None,
     token |-> None,
     request_id |-> 0,
     url |-> IF IsSome(u) THEN Unwrap(u) ELSE DEFAULT_URL]

\* TeamsWebsocket::new
New(id, tok, u) ==
    [identifier |-> id,
     socket |-> None,
     token |-> tok,
     request_id |-> 0,
     url |-> IF IsSome(u) THEN Unwrap(u) ELSE DEFAULT_URL]

Init ==
    \E a \in CtorArgs :
        LET id == a[1]
            tok == a[2]
            u == a[3]
            w == New(id, tok, u)
        IN
        /\ args = [identifier |-> id, token |-> tok, url |-> u]
        /\ identifier = w.identifier
        /\ socket = w.socket
        /\ token = w.token
        /\ request_id = w.request_id
        /\ url = w.url
        /\ chans = [c \in ChanIds |-> Unopened]
        /\ result = Ok("new", None)
        /\ aborted = FALSE
        /\ opCount = 0
        /\ lastMessage = None
        /\ sendLog = <<>>
        /\ closedOk = FALSE
        /\ timedOut = {}
        /\ received = <<>>

\* A call can be made: no panic has unwound and the run's budget is not spent.
CanCall == ~aborted /\ opCount < MaxOps

\* A panic unwinds out of the call: nothing is returned.
Panicked(op) == [op |-> op, ok |-> FALSE, err |-> [ty |-> "panic", msg |-> ""], val |-> None]

\* Faulty variant of NotConnected: the counter is advanced before the socket
\* is looked at.
NotConnectedAdvances(op) ==
    /\ result' = Err(op, StrError(SOCKET_NOT_CONNECTED))
    /\ request_id' = request_id + 1
    /\ UNCHANGED <<identifier, socket, token, url, chans, aborted, history>>

\* send, receive and close without a stored socket: the warning is logged and
\* Err(Box::from(SOCKET_NOT_CONNECTED)) returned.
NotConnected(op) ==
    /\ result' = Err(op, StrError(SOCKET_NOT_CONNECTED))
    /\ UNCHANGED <<wrapper, chans, aborted, history>>

\* ------------------------------------------------------------- connect
WellFormedUrls == {DEFAULT_URL, TestUrl}

\* Url::parse_with_params(&self.url, [...]): the base address with the six
\* query parameters attached, or a parse error for a malformed base address.
UrlParseWithParams(base, params) ==
    IF base \in WellFormedUrls
    THEN [ok |-> TRUE, address |-> base, query |-> params]
    ELSE [ok |-> FALSE, address |-> "", query |-> <<>>]

\* The six query parameters of connect, in order.
ConnectParams(id, tok) ==
    << <<"protocol-version", id.protocol_version>>,
       <<"manufacturer", id.manufacturer>>,
       <<"device", id.device>>,
       <<"app", id.app>>,
       <<"app-version", id.app_version>>,
       <<"token", IF IsSome(tok) THEN Unwrap(tok) ELSE "">> >>

\* connect_async succeeded: a new open stream to the address.
OpenChannel(cs, c, u) ==
    [cs EXCEPT ![c] = [Unopened EXCEPT !.status = "open", !.address = u.address,
                                       !.query = u.query]]

\* Faulty variant of DropSocket: the stream stored before is kept alive.
DropSocketLeaks(cs, old) == cs

\* Faulty variant of DropSocket: the stream stored before is shut down with a
\* close frame before it is dropped.
DropSocketClosesGracefully(cs, old) ==
    IF IsSome(old)
    THEN [cs EXCEPT ![Unwrap(old)].status = "dropped", ![Unwrap(old)].closeSent = TRUE]
    ELSE cs

\* self.socket = Some(socket): the assignment drops the value stored before,
\* which closes that stream's connection without a close handshake.
DropSocket(cs, old) ==
    IF IsSome(old) THEN [cs EXCEPT ![Unwrap(old)].status = "dropped"] ELSE cs

\* Faulty variant of ConnectFailed: a failed connect forgets the stored socket.
ConnectFailedClears(e) ==
    /\ result' = Err("connect", e)
    /\ socket' = None
    /\ chans' = DropSocket(chans, socket)
    /\ UNCHANGED <<identifier, token, request_id, url, aborted, history>>

\* connect returns early with an error.
ConnectFailed(e) ==
    /\ result' = Err("connect", e)
    /\ UNCHANGED <<wrapper, chans, aborted, history>>

\* Faulty variant of ConnectStored: a new connection restarts the counter.
ConnectStoredResets(c, u) ==
    /\ socket' = Some(c)
    /\ request_id' = 0
    /\ chans' = DropSocket(OpenChannel(chans, c, u), socket)
    /\ result' = Ok("connect", None)
    /\ closedOk' = FALSE
    /\ UNCHANGED <<identifier, token, url, aborted, args, sendLog, timedOut, received>>

\* The handshake succeeded on channel c: the handle is stored.
ConnectStored(c, u) ==
    /\ socket' = Some(c)
    /\ chans' = DropSocket(OpenChannel(chans, c, u), socket)
    /\ result' = Ok("connect", None)
    /\ closedOk' = FALSE
    /\ UNCHANGED <<identifier, token, request_id, url, aborted, args, sendLog, timedOut, received>>

\* The next stream the server accepts, if it accepts one more.
FreshChans == {c \in ChanIds : chans[c].status = "unopened" /\
                               \A d \in ChanIds : d < c => chans[d].status # "unopened"}

\* TeamsWebsocket::connect
connect ==
    /\ CanCall
    /\ opCount' = opCount + 1
    /\ UNCHANGED lastMessage
    /\ LET u == UrlParseWithParams(url, ConnectParams(identifier, token)) IN
       IF ~u.ok THEN ConnectFailed(UrlParseError)
       ELSE \/ ConnectFailed(WsError)
            \/ \E c \in FreshChans : ConnectStored(c, u)

\* ------------------------------------------------------------- send
I32Max == 2147483647

\* self.request_id += 1 on an i32: the sum, and at the maximum either a panic
\* (overflow checks on) or the wrapped value (overflow checks off).
IncrementI32(x) ==
    IF x < I32Max THEN {[panic |-> FALSE, value |-> x + 1]}
    ELSE {[panic |-> TRUE, value |-> x], [panic |-> FALSE, value |-> -I32Max - 1]}

\* Faulty variant of AssignRequestId: the counter is advanced before it is
\* copied into the message.
AssignRequestIdAfterIncrement(message, rid) ==
    [message EXCEPT !.request_id = Some(rid + 1)]

\* Faulty variant of AssignRequestId: an identifier set by the caller is kept.
AssignRequestIdKeepsCallers(message, rid) ==
    IF IsSome(message.request_id) THEN message
    ELSE [message EXCEPT !.request_id = Some(rid)]

\* message.request_id = Some(self.request_id)
AssignRequestId(message, rid) == [message EXCEPT !.request_id = Some(rid)]

\* Outcomes of writing a frame on a stream: tungstenite refuses to write once
\* a close frame was sent; any write may fail in the transport.
WriteOutcomes(ch) == IF ch.closeSent THEN {FALSE} ELSE {TRUE, FALSE}

\* Faulty variant of SendFailed: the counter is advanced only on success.
SendFailedKeepsCounter(m, e, nxt) ==
    /\ result' = Err("send", e)
    /\ sendLog' = Append(sendLog, [id |-> m.request_id, ok |-> FALSE])
    /\ UNCHANGED <<wrapper, chans, aborted, args, closedOk, timedOut, received>>

\* send returns an error after the counter was advanced to nxt.
SendFailed(m, e, nxt) ==
    /\ request_id' = nxt
    /\ result' = Err("send", e)
    /\ sendLog' = Append(sendLog, [id |-> m.request_id, ok |-> FALSE])
    /\ UNCHANGED <<identifier, socket, token, url, chans, aborted, args, closedOk, timedOut, received>>

\* The text frame was written on channel c; send returns Ok(()).
SendWritten(c, m, text, nxt) ==
    /\ request_id' = nxt
    /\ chans' = [chans EXCEPT ![c].outbox = Append(@, Frame("Text", text))]
    /\ result' = Ok("send", None)
    /\ sendLog' = Append(sendLog, [id |-> m.request_id, ok |-> TRUE])
    /\ UNCHANGED <<identifier, socket, token, url, aborted, args, closedOk, timedOut, received>>

\* The increment overflowed with overflow checks on.
SendPanicked ==
    /\ aborted' = TRUE
    /\ result' = Panicked("send")
    /\ UNCHANGED <<wrapper, chans, history>>

\* TeamsWebsocket::send
send(message) ==
    /\ CanCall
    /\ opCount' = opCount + 1
    /\ lastMessage' = Some(message)
    /\ IF IsSome(socket)
       THEN LET c == Unwrap(socket)
                m == AssignRequestId(message, request_id)
                s == SerializeClientMessage(m)
            IN \E n \in IncrementI32(request_id) :
                 IF n.panic THEN SendPanicked
                 ELSE IF ~s.ok THEN SendFailed(m, JsonError, n.value)
                 ELSE \E written \in WriteOutcomes(chans[c]) :
                        IF written THEN SendWritten(c, m, s.text, n.value)
                        ELSE SendFailed(m, WsError, n.value)
       ELSE NotConnected("send")

\* ------------------------------------------------------------- receive
\* Faulty variant of Consume: the item stays at the head of the stream.
ConsumeKeeps(cs, c) == cs

\* The stream item at the head of channel c is consumed.  An error item ends
\* the stream: every later poll yields None.
Consume(cs, c) ==
    [cs EXCEPT ![c].inbox = Tail(@),
               ![c].eof = @ \/ Head(cs[c].inbox).item = "err"]

\* Faulty variant of ReceiveTimeout: a timeout tears the connection down.
ReceiveTimeoutTearsDown(c) ==
    /\ result' = Err("receive", Elapsed)
    /\ timedOut' = timedOut \cup {c}
    /\ socket' = None
    /\ chans' = DropSocket(chans, socket)
    /\ UNCHANGED <<identifier, token, request_id, url, aborted, args, sendLog, closedOk, received>>

\* timeout(...) elapsed before socket.next() yielded: Err(Elapsed).
ReceiveTimeout(c) ==
    /\ result' = Err("receive", Elapsed)
    /\ timedOut' = timedOut \cup {c}
    /\ UNCHANGED <<wrapper, chans, aborted, args, sendLog, closedOk, received>>

\* Faulty variant of ReceiveClosed: the end of the stream is reported with the
\* message of a missing socket.
ReceiveClosedAsNotConnected(c) ==
    /\ result' = Err("receive", StrError(SOCKET_NOT_CONNECTED))
    /\ UNCHANGED <<wrapper, chans, aborted, history>>

\* socket.next() yielded None: the stream has ended.
ReceiveClosed(c) ==
    /\ result' = Err("receive", StrError(SOCKET_CLOSED))
    /\ UNCHANGED <<wrapper, chans, aborted, history>>

\* socket.next() yielded Some(Err(e)).
ReceiveReadError(c) ==
    /\ result' = Err("receive", WsError)
    /\ chans' = Consume(chans, c)
    /\ UNCHANGED <<wrapper, aborted, history>>

\* Faulty variant of ReceiveMessage: a refreshed token in the response
\* replaces the stored one.
ReceiveMessageStoresToken(c, msg) ==
    LET t == ToText(msg) IN
    IF ~t.ok
    THEN /\ aborted' = TRUE
         /\ result' = Panicked("receive")
         /\ chans' = Consume(chans, c)
         /\ UNCHANGED <<wrapper, history>>
    ELSE LET d == DeserializeServerMessage(t.text) IN
         /\ result' = IF d.ok THEN Ok("receive", d.val) ELSE Err("receive", JsonError)
         /\ received' = IF d.ok THEN Append(received, Unwrap(d.val)) ELSE received
         /\ token' = IF d.ok /\ IsSome(Unwrap(d.val).token_refresh)
                     THEN Unwrap(d.val).token_refresh ELSE token
         /\ chans' = Consume(chans, c)
         /\ UNCHANGED <<identifier, socket, request_id, url, aborted, args, sendLog,
                        closedOk, timedOut>>

\* socket.next() yielded Some(Ok(msg)): msg.to_text().unwrap() panics when
\* to_text fails; otherwise the text is parsed as a ServerMessage.
ReceiveMessage(c, msg) ==
    LET t == ToText(msg) IN
    IF ~t.ok
    THEN /\ aborted' = TRUE
         /\ result' = Panicked("receive")
         /\ chans' = Consume(chans, c)
         /\ UNCHANGED <<wrapper, history>>
    ELSE LET d == DeserializeServerMessage(t.text) IN
         /\ result' = IF d.ok THEN Ok("receive", d.val) ELSE Err("receive", JsonError)
         /\ received' = IF d.ok THEN Append(received, Unwrap(d.val)) ELSE received
         /\ chans' = Consume(chans, c)
         /\ UNCHANGED <<wrapper, aborted, args, sendLog, closedOk, timedOut>>

\* TeamsWebsocket::receive.  A stream with an item ready yields it at once;
\* an ended stream yields None at once; otherwise the 10 ms wait elapses.
receive ==
    /\ CanCall
    /\ opCount' = opCount + 1
    /\ UNCHANGED lastMessage
    /\ IF IsSome(socket)
       THEN LET c == Unwrap(socket)
                ch == chans[c]
            IN IF ch.inbox = <<>>
               THEN IF ch.eof THEN ReceiveClosed(c) ELSE ReceiveTimeout(c)
               ELSE IF Head(ch.inbox).item = "err" THEN ReceiveReadError(c)
               ELSE ReceiveMessage(c, Head(ch.inbox).msg)
       ELSE NotConnected("receive")

\* ------------------------------------------------------------- close
\* socket.close(None) failed: the error is returned.
CloseFailed(c) ==
    /\ result' = Err("close", WsError)
    /\ UNCHANGED <<wrapper, chans, aborted, history>>

\* socket.close(None) succeeded: the close frame is on its way and Ok(()) is
\* returned.  self.socket is not assigned.
CloseDone(c) ==
    /\ chans' = [chans EXCEPT ![c].closeSent = TRUE]
    /\ result' = Ok("close", None)
    /\ closedOk' = TRUE
    /\ UNCHANGED <<wrapper, aborted, args, sendLog, timedOut, received>>

\* TeamsWebsocket::close
close ==
    /\ CanCall
    /\ opCount' = opCount + 1
    /\ UNCHANGED lastMessage
    /\ IF IsSome(socket)
       THEN LET c == Unwrap(socket) IN
            \E closed \in WriteOutcomes(chans[c]) :
                IF closed THEN CloseDone(c) ELSE CloseFailed(c)
       ELSE NotConnected("close")

\* ------------------------------------------------------------- the peer
\* Number of stream items delivered so far, on all channels.
RECURSIVE SumDelivered(_)
SumDelivered(cs) ==
    IF cs = {} THEN 0
    ELSE LET c == CHOOSE x \in cs : TRUE
         IN chans[c].delivered + SumDelivered(cs \ {c})
Delivered == SumDelivered(ChanIds)

\* The peer can still deliver on channel c.
Deliverable(c) ==
    /\ CanCall
    /\ chans[c].status = "open"
    /\ ~chans[c].eof
    /\ Delivered < MaxDeliver

\* Items after which the stream yields nothing more.
Terminal(it) == it.item = "err" \/ it.msg.kind = "Close"

Deliver(c, it) ==
    /\ chans' = [chans EXCEPT ![c].inbox = Append(@, it),
                              ![c].delivered = @ + 1,
                              ![c].eof = @ \/ Terminal(it)]
    /\ UNCHANGED <<wrapper, result, aborted, opCount, lastMessage, history>>

\* The peer sends a frame of its own accord.
ServerPush(c, f) == Deliverable(c) /\ Deliver(c, MsgItem(f))

\* The test server's loop: the next text frame read is answered with a
\* response that echoes its request identifier and text.
Echo(c) ==
    /\ chans[c].answered < Len(chans[c].outbox)
    /\ chans' = [chans EXCEPT
                   ![c].inbox = Append(@, MsgItem(Frame("Text",
                        EchoResponse(chans[c].outbox[chans[c].answered + 1].data)))),
                   ![c].delivered = @ + 1,
                   ![c].answered = @ + 1]
    /\ UNCHANGED <<wrapper, result, aborted, opCount, lastMessage, history>>

ServerEcho(c) == Deliverable(c) /\ Echo(c)

\* Reading from the transport fails.
ReadFailure(c) == Deliverable(c) /\ Deliver(c, ErrItem)

\* The peer ends the stream.
PeerClose(c) ==
    /\ CanCall
    /\ chans[c].status = "open"
    /\ ~chans[c].eof
    /\ chans' = [chans EXCEPT ![c].eof = TRUE]
    /\ UNCHANGED <<wrapper, result, aborted, opCount, lastMessage, history>>

\* ------------------------------------------------------------- the wire
\* Commands of every action without parameters, of three actions with every
\* parameter type (matching or not), and commands whose request identifier
\* the caller has set.
WireCommands ==
    {ClientMessageNew(a, None) : a \in MeetingAction}
    \cup {ClientMessageNew(a, Some(t)) :
             a \in {"React", "ToggleUI", "Mute"}, t \in ClientMessageParameterType}
    \cup {ClientMessage("BlurBackground", None, Some(i)) : i \in {-1, 0, 7, I32Max}}

\* Values the counter has when the wrapper connects: none sent yet, some
\* sent, and the last value of the i32 range.
CounterSeeds == {0, 7, I32Max}

\* A wrapper that has just connected to the test address on channel 1, its
\* counter at a seed, with WireSends calls left.
InitWire ==
    \E a \in CtorArgs, n \in CounterSeeds :
        LET w == New(a[1], a[2], a[3])
            u == UrlParseWithParams(w.url, ConnectParams(w.identifier, w.token))
        IN
        /\ u.ok
        /\ a[3] = Some(TestUrl)
        /\ args = [identifier |-> a[1], token |-> a[2], url |-> a[3]]
        /\ identifier = w.identifier
        /\ socket = Some(1)
        /\ token = w.token
        /\ request_id = n
        /\ url = w.url
        /\ chans = OpenChannel([c \in ChanIds |-> Unopened], 1, u)
        /\ result = Ok("connect", None)
        /\ aborted = FALSE
        /\ opCount = MaxOps - WireSends
        /\ lastMessage = None
        /\ sendLog = <<>>
        /\ closedOk = FALSE
        /\ timedOut = {}
        /\ received = <<>>

NextWire == \E message \in WireCommands : send(message)

SpecWire == InitWire /\ [][NextWire]_vars

\* ------------------------------------------------------------- the echo server
\* A wrapper constructed for the test address that has just connected to the
\* test server on channel 1; no command was sent yet.
InitEcho ==
    \E a \in CtorArgs :
        LET w == New(a[1], a[2], a[3])
            u == UrlParseWithParams(w.url, ConnectParams(w.identifier, w.token))
        IN
        /\ u.ok
        /\ a[3] = Some(TestUrl)
        /\ args = [identifier |-> a[1], token |-> a[2], url |-> a[3]]
        /\ identifier = w.identifier
        /\ socket = Some(1)
        /\ token = w.token
        /\ request_id = w.request_id
        /\ url = w.url
        /\ chans = OpenChannel([c \in ChanIds |-> Unopened], 1, u)
        /\ result = Ok("connect", None)
        /\ aborted = FALSE
        /\ opCount = 0
        /\ lastMessage = None
        /\ sendLog = <<>>
        /\ closedOk = FALSE
        /\ timedOut = {}
        /\ received = <<>>

\* The test server answers on a connection it holds, however many frames came.
TestServerAnswers(c) == chans[c].status = "open" /\ Echo(c)

\* The caller sends and receives in any order; the test server answers every
\* frame it reads, in the order read.
NextEcho ==
    \/ \E message \in Commands : send(message)
    \/ receive
    \/ \E c \in ChanIds : TestServerAnswers(c)

SpecEcho == InitEcho /\ [][NextEcho]_vars

\* ------------------------------------------------------------- decoding
\* Response objects a peer may send: each of the five members absent, null or
\* a value of the field's type; requestId and response also the value true,
\* which is of neither field's type.
ResponseObjects ==
    {ResponseObject(rid, resp, emsg, tok, mu) :
        rid \in {JAbsent, JNull, JInt(0), JTrue},
        resp \in {JAbsent, JNull, JStr("Echo"), JTrue},
        emsg \in {JAbsent, JNull, JStr("failed")},
        tok \in {JAbsent, JNull, JStr("new-token")},
        mu \in {JAbsent, JNull, JObj([meetingPermissions |-> JAbsent, meetingState |-> JNull])}}

\* A connected wrapper on whose channel one text frame with a response object
\* has arrived.
InitDecode ==
    \E a \in CtorArgs, obj \in ResponseObjects :
        LET w == New(a[1], a[2], a[3])
            u == UrlParseWithParams(w.url, ConnectParams(w.identifier, w.token))
            open == OpenChannel([c \in ChanIds |-> Unopened], 1, u)
        IN
        /\ u.ok
        /\ a[3] = Some(TestUrl)
        /\ args = [identifier |-> a[1], token |-> a[2], url |-> a[3]]
        /\ identifier = w.identifier
        /\ socket = Some(1)
        /\ token = w.token
        /\ request_id = w.request_id
        /\ url = w.url
        /\ chans = [open EXCEPT ![1].inbox = <<MsgItem(Frame("Text", JsonText(obj)))>>,
                                ![1].delivered = 1]
        /\ result = Ok("connect", None)
        /\ aborted = FALSE
        /\ opCount = 0
        /\ lastMessage = None
        /\ sendLog = <<>>
        /\ closedOk = FALSE
        /\ timedOut = {}
        /\ received = <<>>

NextDecode == receive

SpecDecode == InitDecode /\ [][NextDecode]_vars

\* ------------------------------------------------------------- specification
Next ==
    \/ connect
    \/ \E message \in Commands : send(message)
    \/ receive
    \/ close
    \/ \E c \in ChanIds, f \in ServerFrames : ServerPush(c, f)
    \/ \E c \in ChanIds : ServerEcho(c)
    \/ \E c \in ChanIds : ReadFailure(c)
    \/ \E c \in ChanIds : PeerClose(c)

Spec == Init /\ [][Next]_vars

\* ------------------------------------------------------------- claims
\* The step is a call of op (the peer's steps leave opCount alone).
Called(op) == opCount' = opCount + 1 /\ result'.op = op

Connected == IsSome(socket)
NotConnectedError == StrError(SOCKET_NOT_CONNECTED)

\* C1 (as claimed): after a close that returned success the wrapper holds no
\* socket, so until the next successful connect a send fails with the
\* not-connected error.
C1_SendAfterCloseNotConnected ==
    (closedOk /\ result.op = "send") => (socket = None /\ result.err = NotConnectedError)

\* C2: while the send calls made on a connected wrapper have all succeeded,
\* the identifiers they were assigned are 0, 1, 2, ... in call order, whatever
\* the action, the parameters and the caller's own identifier.
C2_SendIdsCountFromZero ==
    \A i \in 1..Len(sendLog) :
        (\A j \in 1..i : sendLog[j].ok) => sendLog[i].id = Some(i - 1)

\* C2 witness: three successful sends, of commands that differ.
C2_Witness ==
    /\ Len(sendLog) = 3
    /\ \A i \in 1..3 : sendLog[i].ok
    /\ Connected
    /\ Len(chans[Unwrap(socket)].outbox) = 3
    /\ chans[Unwrap(socket)].outbox[1].data.action # chans[Unwrap(socket)].outbox[2].data.action

\* C3: on a wrapper without a socket, send, receive and close each return the
\* not-connected error, leave every channel as it was and leave every field
\* of the wrapper, the request counter included, unchanged.
C3_DisconnectedCallsFail ==
    [][ (socket = None /\ (Called("send") \/ Called("receive") \/ Called("close")))
        => /\ ~result'.ok
           /\ result'.err = NotConnectedError
           /\ chans' = chans
           /\ wrapper' = wrapper
           /\ ~aborted' ]_vars

\* C3 witness: a send on a wrapper that was never connected has failed, after
\* an earlier call.
C3_Witness ==
    /\ result = Err("send", NotConnectedError)
    /\ socket = None
    /\ request_id = 0
    /\ opCount >= 2

\* C4: every send made while a socket is stored advances the request counter
\* by exactly one, whether it returns success or an error, and no two sends
\* are assigned the same identifier.
C4_SendAlwaysAdvances ==
    /\ [][ (Connected /\ Called("send") /\ ~aborted') => request_id' = request_id + 1 ]_vars
    /\ [](\A i, j \in 1..Len(sendLog) : i # j => sendLog[i].id # sendLog[j].id)

\* C4 witness: a send failed and the next send succeeded with the next
\* identifier.
C4_Witness ==
    /\ Len(sendLog) >= 2
    /\ ~sendLog[1].ok /\ sendLog[1].id = Some(0)
    /\ sendLog[2].ok /\ sendLog[2].id = Some(1)
    /\ request_id = Len(sendLog)

\* C5: a receive on a connected wrapper whose channel has no frame ready
\* within the wait returns the timeout error and leaves the socket and the
\* channel as they were; nothing is lost: on a channel where a receive has
\* timed out, a response frame that arrives later is returned by the next
\* receive.
C5_TimeoutKeepsChannel ==
    [][ (Connected /\ Called("receive")) =>
        LET c == Unwrap(socket)
            ch == chans[c]
        IN /\ (ch.inbox = <<>> /\ ~ch.eof)
                => (result' = Err("receive", Elapsed) /\ wrapper' = wrapper /\ chans' = chans)
           /\ (c \in timedOut /\ ch.inbox # <<>> /\ Head(ch.inbox).item = "msg"
                 /\ Head(ch.inbox).msg.kind = "Text"
                 /\ Head(ch.inbox).msg.data.enc = "json")
                => /\ result'.ok
                   /\ result'.val = DeserializeServerMessage(Head(ch.inbox).msg.data).val
                   /\ socket' = socket ]_vars

\* C5 witness: a receive returned a response on a channel on which an earlier
\* receive had timed out.
C5_Witness ==
    /\ Connected
    /\ Unwrap(socket) \in timedOut
    /\ result.op = "receive"
    /\ result.ok
    /\ chans[Unwrap(socket)].status = "open"

\* Channels whose stream the wrapper owns.
Owned == {c \in ChanIds : chans[c].status = "open"}

\* C6: the wrapper owns at most one stream, the one its socket names; a
\* successful connect, from either state, stores the handle of the stream it
\* has just opened and the stream stored before is no longer owned.
C6_AtMostOneSocket ==
    /\ [](/\ Cardinality(Owned) <= 1
          /\ \A c \in ChanIds : c \in Owned <=> socket = Some(c))
    /\ [][ (Called("connect") /\ result'.ok) =>
            /\ IsSome(socket')
            /\ chans[Unwrap(socket')].status = "unopened"
            /\ Owned' = {Unwrap(socket')} ]_vars

\* C6 witness: a connect succeeded on a connected wrapper.
C6_Witness ==
    /\ result = Ok("connect", None)
    /\ socket = Some(2)
    /\ chans[1].status = "dropped"
    /\ chans[2].status = "open"

\* The step is a receive that takes a frame of another kind than text.
ReceivesNonText ==
    /\ Connected
    /\ Called("receive")
    /\ chans[Unwrap(socket)].inbox # <<>>
    /\ Head(chans[Unwrap(socket)].inbox).item = "msg"
    /\ Head(chans[Unwrap(socket)].inbox).msg.kind # "Text"

\* C7 (as claimed): a receive that gets a frame that is not a text frame
\* returns the decode error: it neither panics nor returns a response.
C7_NonTextIsDecodeError ==
    [][ ReceivesNonText => (result' = Err("receive", JsonError) /\ ~aborted') ]_vars

\* C8: a failed connect, a failed receive and a failed close leave the
\* wrapper's fields unchanged (the socket stays present or absent, and the
\* counter, token, address and identity stay); a failed send changes no field
\* but the request counter.
C8_FailureLeavesState ==
    [][ (opCount' = opCount + 1 /\ ~result'.ok /\ ~aborted') =>
        /\ result'.op \in {"connect", "receive", "close"} => wrapper' = wrapper
        /\ result'.op = "send" =>
              <<identifier, socket, token, url>>' = <<identifier, socket, token, url>> ]_vars

\* C8 witness: a connect failed on a connected wrapper, which is still
\* connected.
C8_Witness ==
    /\ result.op = "connect"
    /\ ~result.ok
    /\ Connected
    /\ chans[Unwrap(socket)].status = "open"

\* The errors receive returns on a connected wrapper.
ReceiveErrors == {Elapsed, StrError(SOCKET_CLOSED), WsError, JsonError}

\* C9: on a connected wrapper the channel's event decides what receive
\* returns: nothing ready gives the timeout error, the end of the stream the
\* closed error, a read failure the transport error, a text frame that is not
\* a response the decode error, a text frame that is one the response; the
\* four errors differ from each other and from the not-connected error.
C9_ReceiveOutcomeByEvent ==
    /\ [][ (Connected /\ Called("receive")) =>
            LET ch == chans[Unwrap(socket)]
                it == Head(ch.inbox)
            IN /\ (ch.inbox = <<>> /\ ~ch.eof) => result' = Err("receive", Elapsed)
               /\ (ch.inbox = <<>> /\ ch.eof) => result' = Err("receive", StrError(SOCKET_CLOSED))
               /\ (ch.inbox # <<>> /\ it.item = "err") => result' = Err("receive", WsError)
               /\ (ch.inbox # <<>> /\ it.item = "msg" /\ it.msg.kind = "Text")
                    => result' = IF DeserializeServerMessage(it.msg.data).ok
                                 THEN Ok("receive", DeserializeServerMessage(it.msg.data).val)
                                 ELSE Err("receive", JsonError) ]_vars
    /\ [](/\ Cardinality(ReceiveErrors \cup {NotConnectedError}) = 5
          /\ (result.op = "receive" /\ Connected /\ ~aborted /\ ~result.ok)
                => result.err \in ReceiveErrors)

\* C9 witness: a receive met the end of the stream.
C9_Witness ==
    /\ result = Err("receive", StrError(SOCKET_CLOSED))
    /\ Connected
    /\ chans[Unwrap(socket)].eof

\* C10: a freshly constructed wrapper has no socket, a request counter of 0,
\* the identity it was given, and a token exactly if one was given (that one).
C10_FreshWrapper ==
    opCount = 0 =>
        /\ socket = None
        /\ request_id = 0
        /\ identifier = args.identifier
        /\ IsSome(token) <=> IsSome(args.token)
        /\ token = args.token
        /\ Owned = {}

\* C10 witness: a wrapper constructed with a token.
C10_Witness ==
    /\ opCount = 0
    /\ result.op = "new"
    /\ IsSome(args.token)
    /\ IsSome(token)

\* C14: the request counter never decreases; connect, receive and close leave
\* it as it is whatever they return, so the identifiers assigned by the sends
\* of one wrapper grow strictly, across a close, a new connect and a connect
\* on a connected wrapper.
C14_CounterNeverResets ==
    /\ [][ /\ request_id' >= request_id
           /\ (Called("connect") \/ Called("receive") \/ Called("close"))
                 => request_id' = request_id ]_vars
    /\ [](\A i, j \in 1..Len(sendLog) :
             i < j => Unwrap(sendLog[i].id) < Unwrap(sendLog[j].id))

\* C14 witness: a send on the first channel, a second connect, and a send on
\* the second channel.
C14_Witness ==
    /\ socket = Some(2)
    /\ Len(chans[1].outbox) = 1
    /\ Len(chans[2].outbox) = 1
    /\ Len(sendLog) = 2
    /\ request_id = 2

\* C17: a successful connect on a connected wrapper drops the stream stored
\* before without a close frame on it (nothing is written on it by the
\* connect), and from then on no call changes that stream.
C17_ReplacedChannelAbandoned ==
    [][ /\ (Connected /\ Called("connect") /\ result'.ok)
              => chans'[Unwrap(socket)] = [chans[Unwrap(socket)] EXCEPT !.status = "dropped"]
        /\ \A c \in ChanIds : chans[c].status = "dropped" => chans'[c] = chans[c] ]_vars

\* C17 witness: the first channel was replaced with no close frame on it, and
\* a later close acted on the second channel.
C17_Witness ==
    /\ chans[1].status = "dropped"
    /\ ~chans[1].closeSent
    /\ socket = Some(2)
    /\ result = Ok("close", None)
    /\ chans[2].closeSent

\* The token query parameter of a connect made with the constructor's token.
CtorTokenParam == <<"token", IF IsSome(args.token) THEN Unwrap(args.token) ELSE "">>

\* C19: no operation changes the stored token, identity or base address: a
\* refreshed token in a received response is not stored, and every connect
\* attaches the constructor's token (the empty string for none) as the token
\* query parameter.
C19_CtorFieldsNeverChange ==
    /\ token = args.token
    /\ identifier = args.identifier
    /\ url = (IF IsSome(args.url) THEN Unwrap(args.url) ELSE DEFAULT_URL)
    /\ \A c \in ChanIds :
          chans[c].status # "unopened" =>
              /\ Len(chans[c].query) = 6
              /\ chans[c].query[6] = CtorTokenParam

\* C19 witness: a response with a refreshed token was received and a connect
\* has succeeded after it.
C19_Witness ==
    /\ Len(received) = 1
    /\ IsSome(received[1].token_refresh)
    /\ result = Ok("connect", None)
    /\ socket = Some(2)
    /\ chans[2].query[6] = CtorTokenParam

\* The frame a send has just written: the last one on the stored channel.
LastWritten == LET out == chans'[Unwrap(socket)].outbox IN out[Len(out)].data

\* C11: the request identifier in the frame a send writes is the counter's
\* value when send was called, whatever the caller had put in the command's
\* request identifier (nothing or any integer).
C11_FrameCarriesCounter ==
    [][ (Called("send") /\ result'.ok) => LastWritten.requestId = Some(request_id) ]_vars

\* C11 witness: a send of a command in which the caller had set the identifier
\* -1, made with the counter at 7, wrote a frame with identifier 7.
C11_Witness ==
    /\ result = Ok("send", None)
    /\ lastMessage = Some(ClientMessage("BlurBackground", None, Some(-1)))
    /\ request_id = 8
    /\ Len(chans[1].outbox) = 1
    /\ chans[1].outbox[1].data.requestId = Some(7)

\* The frame that carries command m as passed in: the tag of its action, the
\* tag of its parameters or null, and the identifier rid.
FrameOf(m, rid) ==
    Frame("Text",
          [action |-> MeetingActionTag(m.action),
           parameters |-> IF m.parameters = None THEN None
                          ELSE Some([type |-> ClientMessageParameterTypeTag(Unwrap(m.parameters))]),
           requestId |-> Some(rid)])

\* C12: a successful send appends exactly one frame to the stored channel, a
\* failed send writes nothing; the frame carries the action and parameters of
\* the command as passed in, for every combination (null for no parameters);
\* frames are on the channel in the order of the sends.
C12_OneFramePerSend ==
    [][ (Connected /\ Called("send")) =>
           IF result'.ok
           THEN chans' = [chans EXCEPT ![Unwrap(socket)].outbox =
                                          Append(@, FrameOf(Unwrap(lastMessage'), request_id))]
           ELSE chans' = chans ]_vars

\* C12 witness: two frames on the channel, the first a mute command with
\* chat parameters, the second a command without parameters.
C12_Witness ==
    /\ Len(chans[1].outbox) = 2
    /\ chans[1].outbox[1].data.action = "mute"
    /\ chans[1].outbox[1].data.parameters = Some([type |-> "chat"])
    /\ chans[1].outbox[2].data.action = "send-reaction"
    /\ chans[1].outbox[2].data.parameters = None
    /\ chans[1].outbox[2].data.requestId = Some(1)

\* The action tags of the specification's table, per variant.
TableActionTag(a) ==
    CASE a = "QueryMeetingState" -> "query-state"
      [] a = "Mute" -> "mute"
      [] a = "Unmute" -> "unmute"
      [] a = "ToggleMute" -> "toggle-mute"
      [] a = "HideVideo" -> "hide-video"
      [] a = "ShowVideo" -> "show-video"
      [] a = "ToggleVideo" -> "toggle-video"
      [] a = "UnblurBackground" -> "unblur-background"
      [] a = "BlurBackground" -> "blur-background"
      [] a = "ToggleBlurBackground" -> "toggle-background-blur"
      [] a = "LowerHand" -> "lower-hand"
      [] a = "RaiseHand" -> "raise-hand"
      [] a = "ToggleHand" -> "toggle-hand"
      [] a = "LeaveCall" -> "leave-call"
      [] a = "React" -> "send-reaction"
      [] a = "ToggleUI" -> "toggle-ui"
      [] a = "StopSharing" -> "stop-sharing"

\* The parameter tags of the specification's table, per variant.
TableParameterTag(t) ==
    CASE t = "ReactApplause" -> "applause"
      [] t = "ReactLaugh" -> "laugh"
      [] t = "ReactLike" -> "like"
      [] t = "ReactLove" -> "love"
      [] t = "ReactWow" -> "wow"
      [] t = "ToggleUiChat" -> "chat"
      [] t = "ToggleUiSharing" -> "sharing-tray"

\* The numeric codes of the variants as they would read on the wire.
CodeTexts ==
    {ToString(MeetingActionCode(a)) : a \in MeetingAction}
    \cup {ToString(ClientMessageParameterTypeCode(t)) : t \in ClientMessageParameterType}

\* Distinct variants have distinct tags.
TagsDistinct ==
    /\ \A a, b \in MeetingAction : a # b => MeetingActionTag(a) # MeetingActionTag(b)
    /\ \A t, u \in ClientMessageParameterType :
          t # u => ClientMessageParameterTypeTag(t) # ClientMessageParameterTypeTag(u)

\* C15: in every frame a send writes, the action and the parameter type are
\* text tags and never the text of a variant's numeric code, for every action
\* (the none action included) and every parameter type; for every action but
\* none and every parameter type the tag is the one of the specification's
\* table; distinct variants have distinct tags.
C15_TagsOnTheWire ==
    /\ [][ (Called("send") /\ result'.ok) =>
             LET m == Unwrap(lastMessage')
                 f == LastWritten
             IN /\ f.action \notin CodeTexts
                /\ m.action # "None" => f.action = TableActionTag(m.action)
                /\ IsSome(m.parameters) =>
                      /\ f.parameters # None
                      /\ Unwrap(f.parameters).type \notin CodeTexts
                      /\ Unwrap(f.parameters).type = TableParameterTag(Unwrap(m.parameters)) ]_vars
    /\ []TagsDistinct

\* C15 witness: a frame of the none action and a frame with parameters are on
\* the channel.
C15_Witness ==
    /\ Len(chans[1].outbox) = 2
    /\ lastMessage = Some(ClientMessageNew("React", Some("ReactWow")))
    /\ chans[1].outbox[1].data.action = "none"
    /\ chans[1].outbox[2].data.action = "send-reaction"
    /\ chans[1].outbox[2].data.parameters = Some([type |-> "wow"])

\* C18 (as claimed): for every value of the counter, the maximum of the i32
\* range included, a send on a connected wrapper returns without aborting and
\* leaves the counter, the identifier of the next send, strictly greater than
\* the identifier this send assigned.
C18_SendNeverOverflows ==
    [][ (Connected /\ Called("send")) => (~aborted' /\ request_id' > request_id) ]_vars

\* The identifiers of the sends that succeeded, in call order.
SentIds == LET oks == SelectSeq(sendLog, LAMBDA e : e.ok)
           IN [i \in 1..Len(oks) |-> oks[i].id]

\* C13: receive does no correlation: a receive that returns a response
\* returns the decoding of the oldest frame not yet delivered and removes
\* that frame alone, so frames are returned once each in arrival order.
\* Against the echoing server, the j-th response received carries the
\* identifier of the j-th successful send, 0 for a first send that succeeded.
C13_ReceiveInArrivalOrder ==
    /\ [][ (Called("receive") /\ result'.ok) =>
             LET c == Unwrap(socket) IN
             /\ chans[c].inbox # <<>>
             /\ result'.val = DeserializeServerMessage(ToText(Head(chans[c].inbox).msg).text).val
             /\ chans'[c].inbox = Tail(chans[c].inbox)
             /\ received' = Append(received, Unwrap(result'.val)) ]_vars
    /\ [](/\ Len(received) <= Len(SentIds)
          /\ \A j \in 1..Len(received) : received[j].request_id = SentIds[j]
          /\ (Len(received) >= 1 /\ sendLog[1].ok) => received[1].request_id = Some(0))

\* C13 witness: two sends succeeded, then two receives returned the responses
\* echoing 0 and 1.
C13_Witness ==
    /\ Len(sendLog) = 2
    /\ sendLog[1].ok /\ sendLog[2].ok
    /\ opCount = 4
    /\ result.op = "receive" /\ result.ok
    /\ Len(received) = 2
    /\ received[1].request_id = Some(0)
    /\ received[2].request_id = Some(1)

\* The response object with every null member taken out, and with every
\* absent member put in as null.
AbsentForNull(obj) == [k \in DOMAIN obj |-> IF obj[k] = JNull THEN JAbsent ELSE obj[k]]
NullForAbsent(obj) == [k \in DOMAIN obj |-> IF obj[k] = JAbsent THEN JNull ELSE obj[k]]

\* A member that is absent or null.
Missing(jv) == jv \in {JAbsent, JNull}

\* C16: receive decodes a response object the same whether keys among
\* requestId, response, errorMsg, tokenRefresh and meetingUpdate are absent
\* or null, for every subset of the keys: what it returns for the object is
\* what decoding gives for the object with those keys all absent and with
\* those keys all null, and in a decoded response those fields are None.
C16_NullAsAbsent ==
    [][ (Called("receive") /\ Connected /\ chans[Unwrap(socket)].inbox # <<>>) =>
          LET obj == Head(chans[Unwrap(socket)].inbox).msg.data.obj
              absent == DeserializeServerMessage(JsonText(AbsentForNull(obj)))
              null == DeserializeServerMessage(JsonText(NullForAbsent(obj)))
          IN /\ result'.ok = absent.ok /\ result'.val = absent.val
             /\ result'.ok = null.ok /\ result'.val = null.val
             /\ result'.ok =>
                  LET r == Unwrap(result'.val) IN
                  /\ Missing(obj.requestId) => r.request_id = None
                  /\ Missing(obj.response) => r.response = None
                  /\ Missing(obj.errorMsg) => r.error_msg = None
                  /\ Missing(obj.tokenRefresh) => r.token_refresh = None
                  /\ Missing(obj.meetingUpdate) => r.meeting_update = None ]_vars

\* C16 witness: an object with requestId and response set, errorMsg and
\* meetingUpdate null and tokenRefresh absent was decoded.
C16_Witness ==
    /\ result.op = "receive" /\ result.ok
    /\ Len(received) = 1
    /\ received[1] = [request_id |-> Some(0), response |-> Some("Echo"), error_msg |-> None,
                      token_refresh |-> None, meeting_update |-> None]
    /\ chans[1].inbox = <<>>
====
